---- MODULE Spec2Model ----
(***************************************************************************)
(* Model of src/app.py: the one-time load and cleaning of the census       *)
(* table (load_data, the module-level df) and the per-session reactive     *)
(* filter engine of server(): the inputs, the memoised calc filtered_data  *)
(* and the ten outputs that pull it.                                       *)
(***************************************************************************)
EXTENDS Integers, Sequences, FiniteSets, TLC

VARIABLES
    source,      \* the rows of adult.csv as read by pd.read_csv (line 12)
    loadState,   \* "start" before load_data(), "done" after it returned, "error" if it raised
    df,          \* the module-level Dataset (line 27); <<>> until load_data() returned
    input,       \* input[s]: session s's input values, the Filter Parameters
    calc,        \* calc[s]: session s's reactive.calc filtered_data: its invalidated flag and cached value
    episode,     \* episode[s]: pulls and recomputations since session s's last parameter write
    last         \* the event handled last: its session, its name and, for an output, what it produced

vars == <<source, loadState, df, input, calc, episode, last>>
sessionVars == <<input, calc, episode, last>>

(***************************************************************************)
(* Bounds                                                                  *)
(***************************************************************************)
MaxRows == 2     \* longest source table of SpecLoad
MaxAge == 110    \* SpecBins bins every age in 0..MaxAge
MaxPulls == 2    \* most pulls of the view between two parameter writes of a session

\* an event that is no pull of the view: changed are the inputs whose value it changed
event(s, name, ch) ==
    [session |-> s, op |-> name, changed |-> ch, view |-> <<>>, data |-> <<>>, status |-> ""]

(***************************************************************************)
(* CSV cells.  A cell of the age column is either numeric text, which      *)
(* read_csv parses to an integer, or text that is no number.               *)
(***************************************************************************)
Num(n) == [numeric |-> TRUE, val |-> n]
NotANumber == [numeric |-> FALSE, val |-> 0]

RawRow(a, w, o, n, g, r, e, h, c, i) ==
    [age |-> a, workclass |-> w, occupation |-> o, native_country |-> n,
     gender |-> g, race |-> r, education |-> e, hours_per_week |-> h,
     capital_gain |-> c, income |-> i]

(***************************************************************************)
(* load_data, lines 10-25                                                  *)
(***************************************************************************)
\* line 21
bins == <<18, 25, 35, 45, 55, 65, 100>>
\* line 22
labels == <<"18-25", "26-35", "36-45", "46-55", "56-65", "65+">>
\* the missing category pd.cut gives a value that falls in no bin
NaN == "NaN"

\* bins.searchsorted(x, side="left"): the number of edges strictly below x
searchsorted_left(b, x) == Cardinality({i \in 1..Len(b) : b[i] < x})
\* bins.searchsorted(x, side="right"): the number of edges at or below x
searchsorted_right(b, x) == Cardinality({i \in 1..Len(b) : b[i] <= x})

\* pd.cut(x, bins, labels, right=True): every bin (a, b], the first edge excluded
cut_right_closed(x) ==
    LET ids == searchsorted_left(bins, x)
    IN  IF ids = 0 \/ ids = Len(bins) THEN NaN ELSE labels[ids]

\* line 23, pd.cut(x, bins=bins, labels=labels, right=False): ids is the number of
\* edges at or below x, and ids = 0 or ids = len(bins) is the missing category
cut(x) ==
    LET ids == searchsorted_right(bins, x)
    IN  IF ids = 0 \/ ids = Len(bins) THEN NaN ELSE labels[ids]

\* line 12: read_csv infers the age column's dtype from every cell of the column:
\* int64 when all of them are numbers, object (strings) otherwise
age_is_numeric(rows) == \A i \in 1..Len(rows) : rows[i].age.numeric

\* line 12: the parsed frame, the age column as integers
read_csv(rows) == [i \in 1..Len(rows) |-> [rows[i] EXCEPT !.age = rows[i].age.val]]

drop_nothing(rows, col) == rows

\* lines 16-17, df[~df[col].isin(["?"])]: the rows whose col is not exactly "?"
drop_unknown(rows, col) == SelectSeq(rows, LAMBDA r : r[col] # "?")

\* line 18, df['native_country'].replace("?", "Unknown")
replace_unknown(rows) ==
    [i \in 1..Len(rows) |->
        [rows[i] EXCEPT !.native_country = IF @ = "?" THEN "Unknown" ELSE @]]

\* line 23: the derived column age_group
add_age_group(rows) ==
    [i \in 1..Len(rows) |->
        [f \in DOMAIN rows[i] \cup {"age_group"} |->
            IF f = "age_group" THEN cut(rows[i].age) ELSE rows[i][f]]]

\* lines 16-25 on a frame whose age column is numeric
clean(frame) ==
    add_age_group(replace_unknown(drop_unknown(drop_unknown(frame, "workclass"), "occupation")))

\* lines 10-25 and 27: df = load_data().  pd.cut raises TypeError on an object
\* column (line 23), the import fails and df is never bound.
load_data ==
    /\ loadState = "start"
    /\ IF age_is_numeric(source)
         THEN /\ df' = clean(read_csv(source))
              /\ loadState' = "done"
         ELSE /\ df' = <<>>
              /\ loadState' = "error"
    /\ UNCHANGED <<source, sessionVars>>

(***************************************************************************)
(* SpecLoad: load_data() on every source table of at most MaxRows rows.    *)
(***************************************************************************)
LoadAges == {Num(17), Num(30), Num(100), NotANumber}
LoadRows ==
    {RawRow(a, w, o, n, "Male", "White", "Bachelors", 40, 0, "<=50K") :
        a \in LoadAges, w \in {"?", "Private"}, o \in {"?", "Sales"}, n \in {"?", "Cuba"}}

SeqsUpTo(S, n) == UNION {[1..k -> S] : k \in 0..n}

InitLoad ==
    /\ source \in SeqsUpTo(LoadRows, MaxRows)
    /\ loadState = "start"
    /\ df = <<>>
    /\ input = <<>>
    /\ calc = <<>>
    /\ episode = <<>>
    /\ last = event(0, "import", {})

NextLoad == load_data

SpecLoad == InitLoad /\ [][NextLoad]_vars

(***************************************************************************)
(* SpecBins: load_data() on a one-row table, for every age in 0..MaxAge.   *)
(***************************************************************************)
InitBins ==
    /\ source \in {<<RawRow(Num(a), "Private", "Sales", "Cuba", "Male", "White",
                            "Bachelors", 40, 0, "<=50K")>> : a \in 0..MaxAge}
    /\ loadState = "start"
    /\ df = <<>>
    /\ input = <<>>
    /\ calc = <<>>
    /\ episode = <<>>
    /\ last = event(0, "import", {})

SpecBins == InitBins /\ [][NextLoad]_vars

(***************************************************************************)
(* server(input, output, session), lines 144-322.  Shiny calls server()    *)
(* once per connected session: the inputs, the calc and the outputs are    *)
(* the session's own, df is the module's.                                  *)
(***************************************************************************)
Sessions == {1, 2}

\* the table behind the sessions of Spec and SpecMulti
SampleSource ==
    << RawRow(Num(30), "Private", "Sales", "United-States", "Female", "White", "Bachelors", 40, 0, ">50K"),
       RawRow(Num(30), "Private", "Tech-support", "?", "Male", "Black", "HS-grad", 40, 5000, "<=50K"),
       RawRow(Num(45), "?", "?", "United-States", "Male", "White", "HS-grad", 20, 0, "<=50K"),
       RawRow(Num(50), "Private", "Sales", "United-States", "Female", "Black", "Bachelors", 60, 0, "<=50K"),
       RawRow(Num(62), "Private", "Tech-support", "United-States", "Male", "White", "Bachelors", 45, 3000, ">50K") >>

column_values(d, col) == {d[i][col] : i \in 1..Len(d)}

\* the widgets' choices, lines 92-94, 105-108, 119-120; the sliders' positions are
\* drawn from a few ranges, among them one of a single age and one no record is in
gender_choices == {"All", "Male", "Female"}
age_choices == {<<25, 60>>, <<30, 50>>, <<30, 30>>, <<90, 90>>}
race_choices == {"All"} \cup column_values(df, "race")
education_choices == {"All"} \cup column_values(df, "education")
occupation_choices == {"All"} \cup column_values(df, "occupation")
hours_choices == {<<30, 50>>, <<45, 45>>}

\* the widgets' initial values, lines 92-94, 105-108, 119-120
defaults ==
    [gender |-> "All", age |-> <<25, 60>>, race |-> "All", education |-> "All",
     occupation |-> "All", capital_gain |-> FALSE, hours |-> <<30, 50>>]

\* a reactive.calc before its first execution
fresh_calc == [invalidated |-> TRUE, value |-> <<>>]

\* no pull yet since the last write: stale tells whether the write left the calc invalidated,
\* first is the view the first pull after it returned
no_episode == [pulls |-> 0, recomputes |-> 0, stale |-> TRUE, first |-> <<>>]

(***************************************************************************)
(* filtered_data, lines 167-181                                            *)
(***************************************************************************)
\* the body with the age mask's upper bound exclusive
filtered_data_body_open(d, p) ==
    LET g == IF p.gender # "All" THEN SelectSeq(d, LAMBDA r : r.gender = p.gender) ELSE d
        a == SelectSeq(g, LAMBDA r : r.age >= p.age[1] /\ r.age < p.age[2])
    IN  IF p.race # "All" THEN SelectSeq(a, LAMBDA r : r.race = p.race) ELSE a

\* the body with the education select applied as a fourth mask
filtered_data_body_collapsed(d, p) ==
    LET g == IF p.gender # "All" THEN SelectSeq(d, LAMBDA r : r.gender = p.gender) ELSE d
        a == SelectSeq(g, LAMBDA r : r.age >= p.age[1] /\ r.age <= p.age[2])
        c == IF p.race # "All" THEN SelectSeq(a, LAMBDA r : r.race = p.race) ELSE a
    IN  IF p.education # "All" THEN SelectSeq(c, LAMBDA r : r.education = p.education) ELSE c

\* lines 169-181: a copy of df masked by gender, then age, then race
filtered_data_body(d, p) ==
    LET g == IF p.gender # "All" THEN SelectSeq(d, LAMBDA r : r.gender = p.gender) ELSE d
        a == SelectSeq(g, LAMBDA r : r.age >= p.age[1] /\ r.age <= p.age[2])
    IN  IF p.race # "All" THEN SelectSeq(a, LAMBDA r : r.race = p.race) ELSE a

filtered_data_reads_no_race == {"gender", "age"}

\* lines 172-179: the inputs the body reads, which are the calc's dependencies
filtered_data_reads == {"gender", "age", "race"}

\* a calc that executes its body on every call
filtered_data_uncached(s) ==
    [value |-> filtered_data_body(df, input[s]), recomputed |-> TRUE]

\* lines 167-168, @reactive.calc: a call executes the body only when the calc is
\* invalidated, and returns the cached value otherwise
filtered_data(s) ==
    IF calc[s].invalidated
        THEN [value |-> filtered_data_body(df, input[s]), recomputed |-> TRUE]
        ELSE [value |-> calc[s].value, recomputed |-> FALSE]

\* a write that invalidates the calc of every session
invalidate_all(s, names) ==
    [t \in Sessions |-> IF names \cap filtered_data_reads # {} THEN fresh_calc ELSE calc[t]]

\* line 167, @reactive.calc: a change of an input the calc has read invalidates it
\* and drops its cached value; a change of any other input leaves it alone
invalidate(s, names) ==
    [calc EXCEPT ![s] = IF names \cap filtered_data_reads # {} THEN fresh_calc ELSE @]

(***************************************************************************)
(* Input events.  The client sends an input's value when it changes.       *)
(***************************************************************************)
\* session s's inputs after the widgets named in DOMAIN new took the values of new
written(s, new) ==
    [input EXCEPT ![s] = [f \in DOMAIN @ |-> IF f \in DOMAIN new THEN new[f] ELSE @[f]]]

changed(s, new) == {f \in DOMAIN new : new[f] # input[s][f]}

write(s, name, new) ==
    /\ loadState = "done"
    /\ input' = written(s, new)
    /\ calc' = invalidate(s, changed(s, new))
    /\ episode' = [episode EXCEPT ![s] =
                      IF changed(s, new) = {} THEN @
                      ELSE [no_episode EXCEPT !.stale = calc'[s].invalidated]]
    /\ last' = event(s, name, changed(s, new))
    /\ UNCHANGED <<source, loadState, df>>

\* line 92
set_gender(s) ==
    \E v \in gender_choices \ {input[s].gender} : write(s, "gender", [gender |-> v])
\* line 93
set_age(s) ==
    \E v \in age_choices \ {input[s].age} : write(s, "age", [age |-> v])
\* line 94
set_race(s) ==
    \E v \in race_choices \ {input[s].race} : write(s, "race", [race |-> v])
\* lines 105-106
set_education(s) ==
    \E v \in education_choices \ {input[s].education} : write(s, "education", [education |-> v])
\* lines 107-108
set_occupation(s) ==
    \E v \in occupation_choices \ {input[s].occupation} : write(s, "occupation", [occupation |-> v])
\* line 119
set_capital_gain(s) ==
    write(s, "capital_gain", [capital_gain |-> ~input[s].capital_gain])
\* line 120
set_hours(s) ==
    \E v \in hours_choices \ {input[s].hours} : write(s, "hours", [hours |-> v])

\* a demo effect that also resets the race select
demo_and_race(s) ==
    write(s, "demo", [age |-> <<30, 50>>, gender |-> "Female", education |-> "Bachelors",
                      race |-> "All"])

\* lines 146-151: the demo button's effect updates three widgets, whose new values
\* come back as the session's inputs
demo(s) ==
    write(s, "demo", [age |-> <<30, 50>>, gender |-> "Female", education |-> "Bachelors"])

(***************************************************************************)
(* The outputs, lines 183-322.  Each pulls filtered_data() and is bounded  *)
(* to MaxPulls pulls between two parameter writes.                         *)
(***************************************************************************)
\* what an output shows
Placeholder == "No data available for current filters"   \* lines 188, 225, 277
NoDataFigure == "No data available"                      \* line 260
TagList == "taglist"        \* the tab's chart outputs, lines 190, 227, 279
Plotted == "plotted"        \* the data was handed to seaborn or plotly
Csv == "csv"                \* line 322

\* an output of session s ran: r is what its call of filtered_data() gave
pulled(s, name, r, data, status) ==
    /\ loadState = "done"
    /\ episode[s].pulls < MaxPulls
    /\ calc' = [calc EXCEPT ![s] = [invalidated |-> FALSE, value |-> r.value]]
    /\ episode' = [episode EXCEPT ![s].pulls = @ + 1,
                                  ![s].recomputes = @ + IF r.recomputed THEN 1 ELSE 0,
                                  ![s].first = IF episode[s].pulls = 0 THEN r.value ELSE @]
    /\ last' = [session |-> s, op |-> name, changed |-> {}, view |-> r.value,
                data |-> data, status |-> status]
    /\ UNCHANGED <<source, loadState, df, input>>

\* lines 183-193
demographics_plots(s) ==
    LET r == filtered_data(s)
    IN  pulled(s, "demographics_plots", r, r.value,
               IF Len(r.value) = 0 THEN Placeholder ELSE TagList)

\* lines 195-205
income_by_age_gender(s) ==
    LET r == filtered_data(s)
    IN  pulled(s, "income_by_age_gender", r, r.value, Plotted)

\* lines 207-218
income_by_race(s) ==
    LET r == filtered_data(s)
    IN  pulled(s, "income_by_race", r, r.value, Plotted)

\* lines 220-230
education_plots(s) ==
    LET r == filtered_data(s)
    IN  pulled(s, "education_plots", r, r.value,
               IF Len(r.value) = 0 THEN Placeholder ELSE TagList)

\* lines 236-237
by_education(data, p) ==
    IF p.education # "All" THEN SelectSeq(data, LAMBDA r : r.education = p.education) ELSE data

\* lines 232-248
income_by_education(s) ==
    LET r == filtered_data(s)
    IN  pulled(s, "income_by_education", r, by_education(r.value, input[s]), Plotted)

\* lines 254-255
by_occupation(data, p) ==
    IF p.occupation # "All" THEN SelectSeq(data, LAMBDA r : r.occupation = p.occupation) ELSE data

\* series.value_counts(): the number of rows of each value that occurs
value_counts(rows, col) ==
    [v \in column_values(rows, col) |-> Cardinality({i \in 1..Len(rows) : rows[i][col] = v})]

\* line 257; head(10) keeps every count of a table of at most ten occupations
top_jobs(data) == value_counts(SelectSeq(data, LAMBDA r : r.income = ">50K"), "occupation")

\* lines 250-270
top_occupations(s) ==
    LET r == filtered_data(s)
        data == by_occupation(r.value, input[s])
    IN  pulled(s, "top_occupations", r, data,
               IF Cardinality(DOMAIN top_jobs(data)) = 0 THEN NoDataFigure ELSE Plotted)

\* lines 272-282
financial_plots(s) ==
    LET r == filtered_data(s)
    IN  pulled(s, "financial_plots", r, r.value,
               IF Len(r.value) = 0 THEN Placeholder ELSE TagList)

\* lines 288-289
by_capital_gain(data, p) ==
    IF p.capital_gain THEN SelectSeq(data, LAMBDA r : r.capital_gain > 0) ELSE data

\* lines 284-299
capital_gain_plot(s) ==
    LET r == filtered_data(s)
    IN  pulled(s, "capital_gain_plot", r, by_capital_gain(r.value, input[s]), Plotted)

\* lines 305-306
by_hours(data, p) ==
    SelectSeq(data, LAMBDA r : r.hours_per_week >= p.hours[1] /\ r.hours_per_week <= p.hours[2])

\* lines 301-317
hours_vs_income(s) ==
    LET r == filtered_data(s)
    IN  pulled(s, "hours_vs_income", r, by_hours(r.value, input[s]), Plotted)

\* the frame's columns: those of the file under their cleaned names (line 14), then
\* the derived one (line 23)
columns ==
    <<"age", "workclass", "education", "occupation", "race", "gender", "capital_gain",
      "hours_per_week", "native_country", "income", "age_group">>

\* line 322, DataFrame.to_csv(index=False): the header line, then one line per row
\* with the row's cells in column order
to_csv(rows) ==
    <<columns>> \o [i \in 1..Len(rows) |-> [k \in 1..Len(columns) |-> rows[i][columns[k]]]]

\* lines 319-322
download_data(s) ==
    LET r == filtered_data(s)
    IN  pulled(s, "download_data", r, to_csv(r.value), Csv)

(***************************************************************************)
(* Spec: one session on the loaded sample table.                           *)
(***************************************************************************)
Init ==
    /\ source = SampleSource
    /\ loadState = "done"
    /\ df = clean(read_csv(SampleSource))
    /\ input = [s \in Sessions |-> defaults]
    /\ calc = [s \in Sessions |-> fresh_calc]
    /\ episode = [s \in Sessions |-> no_episode]
    /\ last = event(0, "connect", {})

Next ==
    \E s \in {1} :
        \/ set_gender(s)
        \/ set_age(s)
        \/ set_race(s)
        \/ set_education(s)
        \/ set_occupation(s)
        \/ set_capital_gain(s)
        \/ set_hours(s)
        \/ demo(s)
        \/ demographics_plots(s)
        \/ income_by_age_gender(s)
        \/ income_by_race(s)
        \/ education_plots(s)
        \/ income_by_education(s)
        \/ top_occupations(s)
        \/ financial_plots(s)
        \/ capital_gain_plot(s)
        \/ hours_vs_income(s)
        \/ download_data(s)

Spec == Init /\ [][Next]_vars

(***************************************************************************)
(* SpecMulti: two sessions, their writes of the global parameters and      *)
(* their pulls interleaved.                                                *)
(***************************************************************************)
NextMulti ==
    \E s \in Sessions :
        \/ set_gender(s)
        \/ set_age(s)
        \/ set_race(s)
        \/ demographics_plots(s)
        \/ download_data(s)

SpecMulti == Init /\ [][NextMulti]_vars

(***************************************************************************)
(* Properties of load_data (SpecLoad, SpecBins)                            *)
(***************************************************************************)
\* the k-th smallest index of a set of indexes
KthOf(K, k) == CHOOSE i \in K : Cardinality({j \in K : j < i}) = k - 1

\* view is the rows of d at the indexes K, in d's order
IsSelection(view, d, K) ==
    /\ Len(view) = Cardinality(K)
    /\ \A k \in 1..Len(view) : view[k] = d[KthOf(K, k)]

\* the indexes of the source rows the cleaning rules retain
Retained == {i \in 1..Len(source) : source[i].workclass # "?" /\ source[i].occupation # "?"}

\* C8: after a load that returned, no record has "?" as workclass, occupation or
\* native_country; the Dataset is exactly the source rows whose workclass and occupation
\* both differ from "?", in source order; a retained row's native_country "?" has become
\* "Unknown" and every other field of the source row is unchanged.
C8_CleaningRules ==
    loadState = "done" =>
        /\ \A k \in 1..Len(df) :
              df[k].workclass # "?" /\ df[k].occupation # "?" /\ df[k].native_country # "?"
        /\ Len(df) = Cardinality(Retained)
        /\ \A k \in 1..Len(df) :
              LET src == source[KthOf(Retained, k)]
              IN  /\ df[k].native_country =
                        IF src.native_country = "?" THEN "Unknown" ELSE src.native_country
                  /\ df[k].age = src.age.val
                  /\ \A f \in DOMAIN src \ {"native_country", "age"} : df[k][f] = src[f]

\* a two-row table whose first row is dropped and whose second is kept and relabelled
C8_Witness ==
    /\ loadState = "done"
    /\ Len(source) = 2
    /\ source[1].workclass = "?"
    /\ source[2].native_country = "?"
    /\ Len(df) = 1
    /\ df[1].native_country = "Unknown"

\* the age groups as the bins [18,25) ... [55,65) and a last bin lo..hi
GroupOf(a, lo, hi) ==
    IF a >= 18 /\ a <= 24 THEN "18-25"
    ELSE IF a >= 25 /\ a <= 34 THEN "26-35"
    ELSE IF a >= 35 /\ a <= 44 THEN "36-45"
    ELSE IF a >= 45 /\ a <= 54 THEN "46-55"
    ELSE IF a >= 55 /\ a <= 64 THEN "56-65"
    ELSE IF a >= lo /\ a <= hi THEN "65+"
    ELSE NaN

\* C9 as stated: the last bin is [65,100], so that age 100 is in "65+" and only the
\* ages below 18 or above 100 are missing.
C9_LastBinClosed ==
    loadState = "done" => \A k \in 1..Len(df) : df[k].age_group = GroupOf(df[k].age, 65, 100)

\* C9 as amended: the last bin is [65,100) like the others, so that the ages 65..99
\* are in "65+" and every age below 18 or at or above 100 is missing.
C9_AgeGroups ==
    loadState = "done" => \A k \in 1..Len(df) : df[k].age_group = GroupOf(df[k].age, 65, 99)

\* age 100 loaded and without an age group
C9_Witness ==
    /\ loadState = "done"
    /\ Len(df) = 1
    /\ df[1].age = 100
    /\ df[1].age_group = NaN

\* the source rows whose age is a number
WellFormed == SelectSeq(source, LAMBDA r : r.age.numeric)

\* C10: a load never ends in an error: it returns the cleaned Dataset of the well-formed
\* source rows, the malformed ones silently dropped.
C10_MalformedRowsDropped ==
    loadState # "start" => loadState = "done" /\ df = clean(read_csv(WellFormed))

(***************************************************************************)
(* Properties of the filter engine and its consumers (Spec, SpecMulti)     *)
(***************************************************************************)
WriteOps == {"gender", "age", "race", "education", "occupation", "capital_gain", "hours", "demo"}
Containers == {"demographics_plots", "education_plots", "financial_plots"}
Charts ==
    {"income_by_age_gender", "income_by_race", "income_by_education", "top_occupations",
     "capital_gain_plot", "hours_vs_income"}
ConsumerOps == Containers \cup Charts \cup {"download_data"}
GlobalParams == {"gender", "age", "race"}

\* record r passes every active global predicate of the parameters p
PassesGlobal(r, p) ==
    /\ p.gender = "All" \/ r.gender = p.gender
    /\ p.age[1] <= r.age /\ r.age <= p.age[2]
    /\ p.race = "All" \/ r.race = p.race

\* view is the Dataset's records that pass the global predicates of p, in Dataset order
IsGlobalView(view, p) == IsSelection(view, df, {i \in 1..Len(df) : PassesGlobal(df[i], p)})

\* C1: the view a pull returns, and the view the calc holds while it is valid, is exactly the
\* Dataset's records, in Dataset order, that pass the gender, the inclusive age range and
\* the race predicates of the session's parameters as they are now, never of earlier ones.
C1_ViewMatchesParameters ==
    /\ \A s \in Sessions : ~calc[s].invalidated => IsGlobalView(calc[s].value, input[s])
    /\ last.op \in ConsumerOps => IsGlobalView(last.view, input[last.session])

\* a pull after writes: the age range is the single age 30, the gender Female, and the view
\* is the one record of the five that is a woman of 30
C1_Witness ==
    /\ last.op \in ConsumerOps
    /\ input[1].age = <<30, 30>>
    /\ input[1].gender = "Female"
    /\ Len(last.view) = 1
    /\ last.view[1].age = 30

CurrentView(s) == filtered_data(s).value

\* the data each chart of session s would plot now
Plots(s) ==
    [income_by_age_gender |-> CurrentView(s),
     income_by_race |-> CurrentView(s),
     income_by_education |-> by_education(CurrentView(s), input[s]),
     top_occupations |-> by_occupation(CurrentView(s), input[s]),
     capital_gain_plot |-> by_capital_gain(CurrentView(s), input[s]),
     hours_vs_income |-> by_hours(CurrentView(s), input[s])]

\* the local parameter a chart applies, if any
OwnParam(c) ==
    CASE c = "income_by_education" -> {"education"}
      [] c = "top_occupations" -> {"occupation"}
      [] c = "capital_gain_plot" -> {"capital_gain"}
      [] c = "hours_vs_income" -> {"hours"}
      [] OTHER -> {}

\* record r passes the local predicate of consumer c under the parameters p
PassesLocal(c, r, p) ==
    CASE c = "income_by_education" -> p.education = "All" \/ r.education = p.education
      [] c = "top_occupations" -> p.occupation = "All" \/ r.occupation = p.occupation
      [] c = "capital_gain_plot" -> ~p.capital_gain \/ r.capital_gain > 0
      [] c = "hours_vs_income" -> p.hours[1] <= r.hours_per_week /\ r.hours_per_week <= p.hours[2]
      [] OTHER -> TRUE

\* the Dataset's records that pass the global predicates of p and the local predicate of
\* consumer c, which reads c's own local parameter and no other
IsLocalView(data, c, p) ==
    IsSelection(data, df, {i \in 1..Len(df) : PassesGlobal(df[i], p) /\ PassesLocal(c, df[i], p)})

\* rows is the CSV of view: the header, then view's rows in order, their cells in column order
IsCsvOf(rows, view) ==
    /\ Len(rows) = Len(view) + 1
    /\ rows[1] = columns
    /\ \A i \in 1..Len(view) : \A k \in 1..Len(columns) : rows[i + 1][k] = view[i][columns[k]]

\* C4: the view a pull returns is decided by the global parameters alone; the data a chart
\* works on is that view refined by the chart's own local predicate and by no other; the CSV
\* export is the global view, row for row and column for column.  So a change of a local
\* parameter changes neither the view, nor the export, nor any other consumer's data.
C4_TwoLayers ==
    /\ \A s \in Sessions :
          /\ IsGlobalView(CurrentView(s), input[s])
          /\ IsCsvOf(to_csv(CurrentView(s)), CurrentView(s))
          /\ \A c \in Charts : IsLocalView(Plots(s)[c], c, input[s])
    /\ last.op \in ConsumerOps \ {"download_data"} =>
          IsLocalView(last.data, last.op, input[last.session])
    /\ last.op = "download_data" =>
          IsGlobalView(last.view, input[last.session]) /\ IsCsvOf(last.data, last.view)

\* the education chart plotted fewer records than the view holds while an occupation is
\* selected too, which the education chart ignores
C4_Witness ==
    /\ last.op = "income_by_education"
    /\ input[1].education = "Bachelors"
    /\ input[1].occupation = "Tech-support"
    /\ Len(last.view) = 3
    /\ Len(last.data) = 2

\* C5: a consumer that pulled an empty view shows the placeholder.
C5_EmptyViewShowsPlaceholder ==
    (last.op \in ConsumerOps /\ Len(last.view) = 0) => last.status = Placeholder

\* C6: no step writes the Dataset; a pull or render changes no parameter and leaves in the
\* calc the very view a pull before it would have returned; a widget event changes its own parameter only, and the
\* demo button sets age to [30,50], gender to Female, education to Bachelors and nothing
\* else.
C6_OnlyInputEventsWrite ==
    [][/\ df' = df /\ source' = source
       /\ last'.op \in ConsumerOps =>
             /\ input' = input
             /\ calc'[last'.session] = [invalidated |-> FALSE, value |-> CurrentView(last'.session)]
             /\ \A s \in Sessions \ {last'.session} : calc'[s] = calc[s]
       /\ last'.op \in WriteOps \ {"demo"} =>
             /\ \A s \in Sessions \ {last'.session} : input'[s] = input[s]
             /\ \A f \in DOMAIN defaults \ {last'.op} :
                   input'[last'.session][f] = input[last'.session][f]
       /\ last'.op = "demo" =>
             input' = [input EXCEPT ![last'.session].age = <<30, 50>>,
                                    ![last'.session].gender = "Female",
                                    ![last'.session].education = "Bachelors"]]_vars

\* the demo button pressed with race, occupation and hours off their defaults
C6_Witness ==
    /\ last.op = "demo"
    /\ input[1].age = <<30, 50>> /\ input[1].gender = "Female" /\ input[1].education = "Bachelors"
    /\ input[1].race = "Black"
    /\ input[1].occupation = "Sales"
    /\ input[1].hours = <<45, 45>>

\* C7: an event of one session changes neither the parameters nor the calc of another, the
\* Dataset is never written, and each session's view is the global view of its own
\* parameters.
C7_SessionsIndependent ==
    [][/\ df' = df
       /\ \A t \in Sessions \ {last'.session} :
             input'[t] = input[t] /\ calc'[t] = calc[t]
       /\ \A s \in Sessions : ~calc'[s].invalidated => IsGlobalView(calc'[s].value, input'[s])
       /\ last'.op \in ConsumerOps => IsGlobalView(last'.view, input'[last'.session])]_vars

\* session 1 wrote its gender while session 2 holds a cached view of other parameters
C7_Witness ==
    /\ last.op = "gender" /\ last.session = 1
    /\ calc[1].invalidated
    /\ ~calc[2].invalidated
    /\ input[2].age = <<30, 30>>
    /\ input[1].age # input[2].age
    /\ Len(calc[2].value) = 2

====
